---- MODULE Spec2Model ----
(***************************************************************************)
(* Filename lister (list_files_nova.py): the natural sort key, the list    *)
(* normalizer, the two-list comparison with its report, the single-slot    *)
(* result cache and its export, the collection of names from a folder with *)
(* its preview and its output file, the two send toggles, and the loading  *)
(* of a list file.                                                         *)
(*                                                                         *)
(* A string is a sequence of characters; a character is one of the tokens  *)
(* of Chars.  "SUP2" stands for U+00B2 (superscript two: str.isdigit() is  *)
(* true of it, the regular expression \d does not match it, int() rejects  *)
(* it) and "LONG_S" for U+017F (long s: str.lower() leaves it unchanged,   *)
(* str.casefold() maps it to "s").                                         *)
(***************************************************************************)
EXTENDS Integers, Sequences, FiniteSets, TLC

VARIABLES
    raw, case_insensitive, items,          \* _normalize_list: arguments, result
    key_p, key_m, key_n, key_out,          \* natural_key: arguments, results
    text_a, text_b,                        \* main window: List A, List B
    comp_case_insensitive, comp_reduce_output, comp_large_threshold,
    compare_result,                        \* main window: result box
    compare_cache,                         \* self._compare_cache
    status_var,                            \* status line
    popup,                                 \* compare popup: ta, tb, res
    files,                                 \* the folder chosen in save
    dialog,                                \* messagebox of the last handler
    last_cmp,                              \* history: last compare that cached
    hash_seed,                             \* the process's string hash seed
    fs,                                    \* the entries of the folder in dir_var
    out_var,                               \* the output file name field
    include_files, include_dirs, recurse,  \* lister checkboxes
    sort_case_insensitive, natural_sort,   \* self.case_insensitive, self.natural_sort
    skip_output,
    send_to_a, send_to_b,                  \* "Send to Compare A", "Send to Compare B"
    text,                                  \* the preview box
    preview_cap,                           \* most entries a preview renders
    out_file,                              \* what write_file last wrote
    gathered,                              \* history: last call of gather_names
    comp_max_combined,                     \* limit of a load, in bytes
    load,                                  \* history: last _load_list_file
    steps                                  \* history: handlers and edits so far

normVars == <<raw, case_insensitive, items>>
keyVars == <<key_p, key_m, key_n, key_out>>
appVars == <<text_a, text_b, comp_case_insensitive, comp_reduce_output,
             comp_large_threshold, compare_result, compare_cache, status_var,
             popup, files, dialog, last_cmp, hash_seed>>
listerVars == <<fs, out_var, include_files, include_dirs, recurse,
                sort_case_insensitive, natural_sort, skip_output, send_to_a, send_to_b,
                text, preview_cap, out_file, gathered>>
loadVars == <<comp_max_combined, load>>
vars == <<normVars, keyVars, appVars, listerVars, loadVars, steps>>

---------------------------------------------------------------------------
(* Bounds *)

\* longest raw text handed to _normalize_list
MaxLen == 3
\* most lines in List A or List B of a compare
MaxLines == 2
\* longest digit run handed to natural_key
MaxRun == 2
\* longest text prefix handed to natural_key
MaxPrefix == 1
\* number of string hash seeds explored
NumSeeds == 2
\* most edits and button presses of one session of the application
MaxSteps == 6

---------------------------------------------------------------------------
(* Characters *)

Chars == {"\n", " ", "0", "1", "2", "S", "s", "SUP2", "LONG_S"}

\* code point of a character of Chars or of a file name
Ord(c) ==
    CASE c = "\n" -> 10
      [] c = " " -> 32
      [] c = "0" -> 48
      [] c = "1" -> 49
      [] c = "2" -> 50
      [] c = "S" -> 83
      [] c = "s" -> 115
      [] c = "SUP2" -> 178
      [] c = "LONG_S" -> 383
      [] c = "." -> 46
      [] c = "/" -> 47
      [] c = "_" -> 95
      [] c = "a" -> 97
      [] c = "d" -> 100
      [] c = "e" -> 101
      [] c = "f" -> 102
      [] c = "i" -> 105
      [] c = "l" -> 108
      [] c = "m" -> 109
      [] c = "n" -> 110
      [] c = "o" -> 111
      [] c = "r" -> 114
      [] c = "t" -> 116
      [] c = "x" -> 120

\* bytes of the character in UTF-8 (the report's other characters are ASCII)
Utf8Len(c) == IF c \in {"SUP2", "LONG_S"} THEN 2 ELSE 1

\* the regular expression class \d
IsDecimal(c) == c \in {"0", "1", "2"}

\* str.isdigit of one character
IsDigitChar(c) == IsDecimal(c) \/ c = "SUP2"

\* str.isspace of one character
IsSpace(c) == c \in {"\n", " "}

\* a line boundary of str.splitlines
IsLineBreak(c) == c = "\n"

DigitValue(c) == Ord(c) - 48

\* str.lower of one character
LowerChar(c) == IF c = "S" THEN "s" ELSE c

\* str.casefold of one character
CasefoldChar(c) == IF c \in {"S", "LONG_S"} THEN "s" ELSE c

lower(s) == [i \in 1..Len(s) |-> LowerChar(s[i])]

casefold(s) == [i \in 1..Len(s) |-> CasefoldChar(s[i])]

\* str.isdigit
isdigit(s) == s # <<>> /\ \A i \in 1..Len(s) : IsDigitChar(s[i])

RECURSIVE StrOfLen(_)
\* the strings of at most n characters
StrOfLen(n) ==
    IF n = 0 THEN {<<>>}
    ELSE LET shorter == StrOfLen(n - 1)
         IN shorter \cup {Append(s, c) : s \in {t \in shorter : Len(t) = n - 1}, c \in Chars}

\* str < str: by code point, a proper prefix first
RECURSIVE StrLess(_, _)
StrLess(s, t) ==
    IF t = <<>> THEN FALSE
    ELSE IF s = <<>> THEN TRUE
    ELSE IF Ord(Head(s)) # Ord(Head(t)) THEN Ord(Head(s)) < Ord(Head(t))
    ELSE StrLess(Tail(s), Tail(t))

RECURSIVE Join(_, _)
\* sep.join(list)
Join(list, sep) ==
    IF list = <<>> THEN <<>>
    ELSE IF Len(list) = 1 THEN list[1]
    ELSE list[1] \o sep \o Join(Tail(list), sep)

RECURSIVE FirstBreak(_)
\* index of the first line boundary of s, 0 when there is none
FirstBreak(s) ==
    IF s = <<>> THEN 0
    ELSE IF IsLineBreak(Head(s)) THEN 1
    ELSE LET r == FirstBreak(Tail(s)) IN IF r = 0 THEN 0 ELSE r + 1

RECURSIVE splitlines(_)
\* str.splitlines: no line for the empty string, none after a final boundary
splitlines(s) ==
    IF s = <<>> THEN <<>>
    ELSE LET b == FirstBreak(s)
         IN IF b = 0 THEN <<s>>
            ELSE <<SubSeq(s, 1, b - 1)>> \o splitlines(SubSeq(s, b + 1, Len(s)))

RECURSIVE lstrip(_)
lstrip(s) == IF s # <<>> /\ IsSpace(Head(s)) THEN lstrip(Tail(s)) ELSE s

RECURSIVE rstrip(_)
rstrip(s) ==
    IF s # <<>> /\ IsSpace(s[Len(s)]) THEN rstrip(SubSeq(s, 1, Len(s) - 1)) ELSE s

\* str.strip
strip(s) == rstrip(lstrip(s))

---------------------------------------------------------------------------
(* natural_key *)

RECURSIVE TextRunLen(_)
TextRunLen(s) ==
    IF s = <<>> \/ IsDecimal(Head(s)) THEN 0 ELSE 1 + TextRunLen(Tail(s))

RECURSIVE DigitRunLen(_)
DigitRunLen(s) ==
    IF s = <<>> \/ ~IsDecimal(Head(s)) THEN 0 ELSE 1 + DigitRunLen(Tail(s))

RECURSIVE re_split(_)
\* re.split(r"(\d+)", s): text, digits, text, ..., text
re_split(s) ==
    LET t == TextRunLen(s)
        rest == SubSeq(s, t + 1, Len(s))
    IN IF rest = <<>> THEN <<SubSeq(s, 1, t)>>
       ELSE LET d == DigitRunLen(rest)
            IN <<SubSeq(s, 1, t), SubSeq(rest, 1, d)>>
                   \o re_split(SubSeq(rest, d + 1, Len(rest)))

\* whether int(t) raises ValueError: t holds a character that is no decimal digit
IntRaises(t) == \E i \in 1..Len(t) : ~IsDecimal(t[i])

RECURSIVE int(_)
\* int(t) of a run of decimal digits
int(t) == IF t = <<>> THEN 0 ELSE 10 * int(SubSeq(t, 1, Len(t) - 1)) + DigitValue(t[Len(t)])

\* mutant of Segment: a digit run is kept as text
SegmentText(t) == [kind |-> "text", n |-> 0, t |-> casefold(t)]

\* one segment of a key: int(t) if t.isdigit() else t.casefold()
Segment(t) ==
    IF isdigit(t) THEN [kind |-> "int", n |-> IF IntRaises(t) THEN 0 ELSE int(t), t |-> <<>>]
    ELSE [kind |-> "text", n |-> 0, t |-> casefold(t)]

\* natural_key(s): the key, or the ValueError of an int() in it
natural_key(s) ==
    LET parts == re_split(s)
    IN IF \E i \in 1..Len(parts) : isdigit(parts[i]) /\ IntRaises(parts[i])
       THEN [raised |-> "ValueError", key |-> <<>>]
       ELSE [raised |-> "none", key |-> [i \in 1..Len(parts) |-> Segment(parts[i])]]

RECURSIVE KeyCmp(_, _)
\* list comparison of two keys: "lt", "eq", "gt", or "TypeError" when the first
\* segments that differ are an int and a str
KeyCmp(k1, k2) ==
    IF k1 = <<>> /\ k2 = <<>> THEN "eq"
    ELSE IF k1 = <<>> THEN "lt"
    ELSE IF k2 = <<>> THEN "gt"
    ELSE LET a == Head(k1)
             b == Head(k2)
         IN IF a = b THEN KeyCmp(Tail(k1), Tail(k2))
            ELSE IF a.kind # b.kind THEN "TypeError"
            ELSE IF a.kind = "int" THEN (IF a.n < b.n THEN "lt" ELSE "gt")
            ELSE IF StrLess(a.t, b.t) THEN "lt" ELSE "gt"

\* natural_key(x) < natural_key(y), for x and y whose keys exist
KeyLess(x, y) == KeyCmp(natural_key(x).key, natural_key(y).key) = "lt"

RECURSIVE InsertByKeyFirst(_, _)
\* mutant of InsertByKey: x placed before the entries with an equal key
InsertByKeyFirst(x, sorted) ==
    IF sorted = <<>> THEN <<x>>
    ELSE IF KeyCmp(natural_key(x).key, natural_key(Head(sorted)).key) \in {"lt", "eq"}
    THEN <<x>> \o sorted
    ELSE <<Head(sorted)>> \o InsertByKeyFirst(x, Tail(sorted))

RECURSIVE InsertByKey(_, _)
\* x placed behind every entry whose key is not greater
InsertByKey(x, sorted) ==
    IF sorted = <<>> THEN <<x>>
    ELSE IF KeyLess(x, Head(sorted)) THEN <<x>> \o sorted
    ELSE <<Head(sorted)>> \o InsertByKey(x, Tail(sorted))

\* mutant of SortByKey: the list is left in its order
SortByKeyNot(list) == list

RECURSIVE SortByKey(_)
\* list.sort(key=natural_key) / sorted(..., key=natural_key): stable
SortByKey(list) ==
    IF list = <<>> THEN <<>>
    ELSE InsertByKey(list[Len(list)], SortByKey(SubSeq(list, 1, Len(list) - 1)))

\* whether sorting list by natural_key raises
SortRaises(list) ==
    \/ \E i \in 1..Len(list) : natural_key(list[i]).raised # "none"
    \/ \E i, j \in 1..Len(list) :
           KeyCmp(natural_key(list[i]).key, natural_key(list[j]).key) = "TypeError"

---------------------------------------------------------------------------
(* App._normalize_list *)

Range(seq) == {seq[i] : i \in 1..Len(seq)}

RECURSIVE DedupExact(_, _, _)
\* mutant of Dedup: the case mode is ignored
DedupExact(lines, ci, kept) ==
    IF lines = <<>> THEN kept
    ELSE LET s == strip(Head(lines))
         IN IF s = <<>> \/ s \in Range(kept)
            THEN DedupExact(Tail(lines), ci, kept)
            ELSE DedupExact(Tail(lines), ci, Append(kept, s))

RECURSIVE Dedup(_, _, _)
\* the loop over the lines: strip, skip blanks, skip seen keys, keep the rest
Dedup(lines, ci, kept) ==
    IF lines = <<>> THEN kept
    ELSE LET s == strip(Head(lines))
             k == IF ci THEN lower(s) ELSE s
         IN IF s = <<>> \/ k \in Range(kept)
            THEN Dedup(Tail(lines), ci, kept)
            ELSE Dedup(Tail(lines), ci, Append(kept, k))

\* _normalize_list(raw, case_insensitive): the list, or the exception of its sort
_normalize_list(r, ci) ==
    LET kept == Dedup(splitlines(r), ci, <<>>)
    IN IF SortRaises(kept) THEN [raised |-> "ValueError", items |-> <<>>]
       ELSE [raised |-> "none", items |-> SortByKey(kept)]

---------------------------------------------------------------------------
(* set(a), set difference, set intersection *)

RECURSIVE StrSum(_)
StrSum(s) == IF s = <<>> THEN 0 ELSE Len(s) * Ord(s[Len(s)]) + StrSum(SubSeq(s, 1, Len(s) - 1))

\* slot of a string in a set's table of eight slots, for the process's hash seed
HashSlot(s, seed) ==
    LET h == StrSum(s) + (StrSum(s) \div 8) IN ((2 * seed + 1) * h + seed) % 8

RECURSIVE InsertBySlot(_, _, _)
\* x placed behind every entry whose slot is not greater (a collision probes on)
InsertBySlot(x, table, seed) ==
    IF table = <<>> THEN <<x>>
    ELSE IF HashSlot(x, seed) < HashSlot(Head(table), seed) THEN <<x>> \o table
    ELSE <<Head(table)>> \o InsertBySlot(x, Tail(table), seed)

RECURSIVE SetIter(_, _)
\* iteration order of the set built by adding the entries of list in order
SetIter(list, seed) ==
    IF list = <<>> THEN <<>>
    ELSE InsertBySlot(list[Len(list)], SetIter(SubSeq(list, 1, Len(list) - 1), seed), seed)

RECURSIVE Keep(_, _, _)
\* the entries of seq that are in S (member) or are not in S (~member), in order
Keep(seq, S, member) ==
    IF seq = <<>> THEN <<>>
    ELSE IF (Head(seq) \in S) = member THEN <<Head(seq)>> \o Keep(Tail(seq), S, member)
    ELSE Keep(Tail(seq), S, member)

\* iteration order of set_x - set_y
SetDifference(x, y, seed) == Keep(SetIter(x, seed), Range(y), FALSE)

\* iteration order of set_x & set_y: the smaller set is the one iterated
SetIntersection(x, y, seed) ==
    IF Len(y) > Len(x) THEN Keep(SetIter(x, seed), Range(y), TRUE)
    ELSE Keep(SetIter(y, seed), Range(x), TRUE)

\* only_a, only_b, both of two normalized lists
only_a_of(a, b, seed) == SortByKey(SetDifference(a, b, seed))

\* mutant of only_b_of: the entries are taken in the order of list b
only_b_of_list(a, b, seed) == SortByKey(Keep(b, Range(a), FALSE))

only_b_of(a, b, seed) == SortByKey(SetDifference(b, a, seed))

\* mutant of both_of: every entry of the smaller set is taken
both_of_all(a, b, seed) == SortByKey(SetIter(IF Len(b) > Len(a) THEN a ELSE b, seed))

both_of(a, b, seed) == SortByKey(SetIntersection(a, b, seed))

---------------------------------------------------------------------------
(* the report *)

RECURSIVE str(_)
\* str(n) of a length
str(n) ==
    LET d == <<"0", "1", "2", "3", "4", "5", "6", "7", "8", "9">>[(n % 10) + 1]
    IN IF n < 10 THEN <<d>> ELSE Append(str(n \div 10), d)

TitleOnlyA == <<"O", "n", "l", "y", " ", "i", "n", " ", "A">>

TitleOnlyB == <<"O", "n", "l", "y", " ", "i", "n", " ", "B">>

TitleBoth == <<"I", "n", " ", "b", "o", "t", "h">>

\* block(title, arr)
block(title, arr) ==
    title \o <<" ", "(">> \o str(Len(arr)) \o <<")", "\n">> \o Join(arr, <<"\n">>)
        \o (IF arr # <<>> THEN <<"\n", "\n">> ELSE <<"\n", "\n">>)

RECURSIVE Utf8Bytes(_)
\* len(text.encode("utf-8"))
Utf8Bytes(t) ==
    IF t = <<>> THEN 0 ELSE Utf8Len(Head(t)) + Utf8Bytes(Tail(t))

\* the dictionary stored in self._compare_cache
CacheOf(a, b, seed) ==
    LET oa == only_a_of(a, b, seed)
        ob == only_b_of(a, b, seed)
        bo == both_of(a, b, seed)
    IN [has |-> TRUE, only_a |-> oa, only_b |-> ob, both |-> bo,
        combined |-> block(TitleOnlyA, oa) \o block(TitleOnlyB, ob) \o block(TitleBoth, bo)]

\* mutant of StoredCache: a suppressed report is not kept
StoredCacheCut(cache, large) == IF large THEN [cache EXCEPT !.combined = <<>>] ELSE cache

\* the dictionary assigned in either branch of the size test
StoredCache(cache, large) == IF large THEN cache ELSE cache

\* before the first compare the attribute does not exist
NoCache == [has |-> FALSE, only_a |-> <<>>, only_b |-> <<>>, both |-> <<>>, combined |-> <<>>]

---------------------------------------------------------------------------
(* The application: state after construction *)

\* self.comp_large_threshold_mb
comp_large_threshold_mb == 3

\* a threshold low enough for a report of the bounded lists to exceed it
SmallThreshold == 48

ClosedPopup == [open |-> FALSE, ta |-> <<>>, tb |-> <<>>, res |-> <<>>]

NoFile == [exists |-> FALSE, data |-> <<>>]

NoFiles == [only_in_a |-> NoFile, only_in_b |-> NoFile, in_both |-> NoFile,
            compare_result |-> NoFile]

NoCompare == [valid |-> FALSE, a |-> <<>>, b |-> <<>>, ci |-> FALSE, reduce |-> FALSE,
              by |-> "none"]

Ready == [msg |-> "Ready", a |-> 0, b |-> 0]

\* int(self.comp_large_threshold_mb * 1024 * 1024)
LargeThresholdBytes == comp_large_threshold_mb * 1024 * 1024

\* App.__init__ and _build_ui: empty lists, both compare toggles off, no cache
AppConstructed ==
    /\ text_a = <<>>
    /\ text_b = <<>>
    /\ comp_case_insensitive = FALSE
    /\ comp_reduce_output = FALSE
    /\ compare_result = <<>>
    /\ compare_cache = NoCache
    /\ status_var = Ready
    /\ popup = ClosedPopup
    /\ files = NoFiles
    /\ dialog = "none"
    /\ last_cmp = NoCompare

NormIdle ==
    /\ raw = <<>>
    /\ case_insensitive = FALSE
    /\ items = [state |-> "idle", items |-> <<>>, first |-> <<>>]

NoKey == [raised |-> "none", key |-> <<>>]

KeyIdle ==
    /\ key_p = <<>>
    /\ key_m = <<>>
    /\ key_n = <<>>
    /\ key_out = [state |-> "idle", m |-> NoKey, n |-> NoKey, c |-> NoKey]

---------------------------------------------------------------------------
(* App.compare_lists *)

compare_lists ==
    \E a \in {_normalize_list(text_a, comp_case_insensitive)},
       b \in {_normalize_list(text_b, comp_case_insensitive)} :
    \E cache \in {CacheOf(a.items, b.items, hash_seed)} :
    \E large \in {comp_reduce_output /\ Utf8Bytes(cache.combined) > comp_large_threshold} :
       /\ IF text_a = <<>> /\ text_b = <<>>
          THEN /\ dialog' = "Missing input"
               /\ UNCHANGED <<text_a, text_b, compare_result, compare_cache, status_var,
                              last_cmp>>
          ELSE IF a.raised # "none" \/ b.raised # "none"
          THEN \* the exception leaves the handler; Tk reports it and goes on
               /\ dialog' = "ValueError"
               /\ UNCHANGED <<text_a, text_b, compare_result, compare_cache, status_var,
                              last_cmp>>
          ELSE /\ IF large
                  THEN /\ text_a' = <<>>
                       /\ text_b' = <<>>
                       /\ compare_result' = <<>>
                       /\ dialog' = "Large output"
                  ELSE /\ compare_result' = cache.combined
                       /\ dialog' = "none"
                       /\ UNCHANGED <<text_a, text_b>>
               /\ compare_cache' = StoredCache(cache, large)
               /\ status_var' = [msg |-> "Compared lists.", a |-> Len(a.items),
                                 b |-> Len(b.items)]
               /\ last_cmp' = [valid |-> TRUE, a |-> text_a, b |-> text_b,
                               ci |-> comp_case_insensitive,
                               reduce |-> comp_reduce_output, by |-> "main"]
       /\ UNCHANGED <<comp_case_insensitive, comp_reduce_output, comp_large_threshold,
                      popup, files, hash_seed, normVars, keyVars, listerVars, loadVars>>

---------------------------------------------------------------------------
(* App.open_compare_window and the popup's buttons *)

open_compare_window ==
    /\ ~popup.open
    /\ popup' = [open |-> TRUE, ta |-> text_a, tb |-> text_b, res |-> <<>>]
    /\ dialog' = "none"
    /\ UNCHANGED <<text_a, text_b, comp_case_insensitive, comp_reduce_output,
                   comp_large_threshold, compare_result, compare_cache, status_var,
                   files, last_cmp, hash_seed, normVars, keyVars, listerVars, loadVars>>

do_compare_popup ==
    \E a \in {_normalize_list(popup.ta, comp_case_insensitive)},
       b \in {_normalize_list(popup.tb, comp_case_insensitive)} :
    \E cache \in {CacheOf(a.items, b.items, hash_seed)} :
    \E large \in {comp_reduce_output /\ Utf8Bytes(cache.combined) > comp_large_threshold} :
       /\ popup.open
       /\ IF popup.ta = <<>> /\ popup.tb = <<>>
          THEN /\ dialog' = "Missing input"
               /\ UNCHANGED <<popup, compare_cache, last_cmp>>
          ELSE IF a.raised # "none" \/ b.raised # "none"
          THEN /\ dialog' = "ValueError"
               /\ UNCHANGED <<popup, compare_cache, last_cmp>>
          ELSE /\ compare_cache' = cache
               /\ IF large
                  THEN popup' = [popup EXCEPT !.res = <<>>] /\ dialog' = "Large output"
                  ELSE popup' = [popup EXCEPT !.res = cache.combined] /\ dialog' = "none"
               /\ last_cmp' = [valid |-> TRUE, a |-> popup.ta, b |-> popup.tb,
                               ci |-> comp_case_insensitive,
                               reduce |-> comp_reduce_output, by |-> "popup"]
       /\ UNCHANGED <<text_a, text_b, comp_case_insensitive, comp_reduce_output,
                      comp_large_threshold, compare_result, status_var, files,
                      hash_seed, normVars, keyVars, listerVars, loadVars>>

\* "Back to main": win.destroy()
back_to_main ==
    /\ popup.open
    /\ popup' = ClosedPopup
    /\ dialog' = "none"
    /\ UNCHANGED <<text_a, text_b, comp_case_insensitive, comp_reduce_output,
                   comp_large_threshold, compare_result, compare_cache, status_var,
                   files, last_cmp, hash_seed, normVars, keyVars, listerVars, loadVars>>

\* "Copy to main A"
copy_to_main_a ==
    /\ popup.open
    /\ text_a' = popup.ta
    /\ dialog' = "none"
    /\ UNCHANGED <<text_b, comp_case_insensitive, comp_reduce_output,
                   comp_large_threshold, compare_result, compare_cache, status_var,
                   popup, files, last_cmp, hash_seed, normVars, keyVars, listerVars, loadVars>>

\* "Copy to main B"
copy_to_main_b ==
    /\ popup.open
    /\ text_b' = popup.tb
    /\ dialog' = "none"
    /\ UNCHANGED <<text_a, comp_case_insensitive, comp_reduce_output,
                   comp_large_threshold, compare_result, compare_cache, status_var,
                   popup, files, last_cmp, hash_seed, normVars, keyVars, listerVars, loadVars>>

---------------------------------------------------------------------------
(* App.save_compare_results *)

\* mutant of Exported: the two only-in lists change places
ExportedSwapped(cache) ==
    [only_in_a |-> [exists |-> TRUE, data |-> Join(cache.only_b, <<"\n">>) \o <<"\n">>],
     only_in_b |-> [exists |-> TRUE, data |-> Join(cache.only_a, <<"\n">>) \o <<"\n">>],
     in_both |-> [exists |-> TRUE, data |-> Join(cache.both, <<"\n">>) \o <<"\n">>],
     compare_result |-> [exists |-> TRUE, data |-> cache.combined]]

\* the four files of a cache, in the order they are written
Exported(cache) ==
    [only_in_a |-> [exists |-> TRUE, data |-> Join(cache.only_a, <<"\n">>) \o <<"\n">>],
     only_in_b |-> [exists |-> TRUE, data |-> Join(cache.only_b, <<"\n">>) \o <<"\n">>],
     in_both |-> [exists |-> TRUE, data |-> Join(cache.both, <<"\n">>) \o <<"\n">>],
     compare_result |-> [exists |-> TRUE, data |-> cache.combined]]

WriteOrder == <<"only_in_a", "only_in_b", "in_both", "compare_result">>

\* the folder after the first n of the four writes
WrittenUpTo(n, cache) ==
    [f \in DOMAIN files |->
        IF \E i \in 1..n : WriteOrder[i] = f THEN Exported(cache)[f] ELSE files[f]]

\* chosen: the user picks the folder (or cancels); written: the writes that succeed
\* before one raises (4: all of them)
save_compare_results(chosen, written) ==
    /\ IF ~compare_cache.has
       THEN dialog' = "No results" /\ UNCHANGED files
       ELSE IF ~chosen
       THEN dialog' = "none" /\ UNCHANGED files
       ELSE /\ files' = WrittenUpTo(written, compare_cache)
            /\ dialog' = IF written = 4 THEN "Saved" ELSE "Write failed"
    /\ UNCHANGED <<text_a, text_b, comp_case_insensitive, comp_reduce_output,
                   comp_large_threshold, compare_result, compare_cache, status_var,
                   popup, last_cmp, hash_seed, normVars, keyVars, listerVars, loadVars>>

---------------------------------------------------------------------------
(* The user: typing into the list boxes, the two checkboxes *)

edit_a(t) ==
    /\ text_a' = t
    /\ dialog' = "none"
    /\ UNCHANGED <<text_b, comp_case_insensitive, comp_reduce_output,
                   comp_large_threshold, compare_result, compare_cache, status_var,
                   popup, files, last_cmp, hash_seed, normVars, keyVars, listerVars, loadVars>>

edit_b(t) ==
    /\ text_b' = t
    /\ dialog' = "none"
    /\ UNCHANGED <<text_a, comp_case_insensitive, comp_reduce_output,
                   comp_large_threshold, compare_result, compare_cache, status_var,
                   popup, files, last_cmp, hash_seed, normVars, keyVars, listerVars, loadVars>>

edit_popup_a(t) ==
    /\ popup.open
    /\ popup' = [popup EXCEPT !.ta = t]
    /\ dialog' = "none"
    /\ UNCHANGED <<text_a, text_b, comp_case_insensitive, comp_reduce_output,
                   comp_large_threshold, compare_result, compare_cache, status_var,
                   files, last_cmp, hash_seed, normVars, keyVars, listerVars, loadVars>>

edit_popup_b(t) ==
    /\ popup.open
    /\ popup' = [popup EXCEPT !.tb = t]
    /\ dialog' = "none"
    /\ UNCHANGED <<text_a, text_b, comp_case_insensitive, comp_reduce_output,
                   comp_large_threshold, compare_result, compare_cache, status_var,
                   files, last_cmp, hash_seed, normVars, keyVars, listerVars, loadVars>>

toggle_case_insensitive ==
    /\ comp_case_insensitive' = ~comp_case_insensitive
    /\ dialog' = "none"
    /\ UNCHANGED <<text_a, text_b, comp_reduce_output, comp_large_threshold,
                   compare_result, compare_cache, status_var, popup, files, last_cmp,
                   hash_seed, normVars, keyVars, listerVars, loadVars>>

toggle_reduce_output ==
    /\ comp_reduce_output' = ~comp_reduce_output
    /\ dialog' = "none"
    /\ UNCHANGED <<text_a, text_b, comp_case_insensitive, comp_large_threshold,
                   compare_result, compare_cache, status_var, popup, files, last_cmp,
                   hash_seed, normVars, keyVars, listerVars, loadVars>>

---------------------------------------------------------------------------
(* The folder, paths *)

\* the name used when the output name field is blank
DefaultOutName ==
    <<"f", "i", "l", "e", "n", "a", "m", "e", "s", "_", "s", "o", "r", "t", "e", "d",
      ".", "t", "x", "t">>

\* An entry of a folder is [name, kind, children]: kind is "file" (is_file()),
\* "dir" (is_dir()) or "other" (neither: a dangling symbolic link, a named
\* pipe); children are the entries of a directory in the order scandir yields
\* them.  fs is [exists, entries]: whether dir_var names a folder, and its entries.

RECURSIVE SplitPath(_)
\* the components of a path string: the runs between separators
SplitPath(n) ==
    IF n = <<>> THEN <<>>
    ELSE LET sep == CHOOSE i \in 1..(Len(n) + 1) :
                        /\ i = Len(n) + 1 \/ n[i] = "/"
                        /\ \A j \in 1..(i - 1) : n[j] # "/"
         IN <<SubSeq(n, 1, sep - 1)>> \o SplitPath(SubSeq(n, sep + 1, Len(n)))

\* the parts of Path(n): empty components and "." are dropped
PathParts(n) == SelectSeq(SplitPath(n), LAMBDA c : c # <<>> /\ c # <<".">>)

\* Path(n).name: the final component, "" when there is none
PathName(n) == LET parts == PathParts(n) IN IF parts = <<>> THEN <<>> ELSE parts[Len(parts)]

\* str((dpath / name).relative_to(root))
RelPath(prefix, name) == IF prefix = <<>> THEN name ELSE prefix \o <<"/">> \o name

RECURSIVE PrefixAll(_, _)
\* the root-relative paths of the entries of the directory at prefix
PrefixAll(entries, prefix) ==
    IF entries = <<>> THEN <<>>
    ELSE <<RelPath(prefix, Head(entries).name)>> \o PrefixAll(Tail(entries), prefix)

---------------------------------------------------------------------------
(* App.gather_names *)

RECURSIVE Walk(_, _, _, _)
RECURSIVE WalkInto(_, _, _, _)
\* the loop over os.walk(root), top down: of each directory its dirnames (the
\* entries that are directories), then its filenames (every other entry), then
\* the directories below it in turn
Walk(entries, prefix, incd, incf) ==
    LET dirnames == SelectSeq(entries, LAMBDA e : e.kind = "dir")
        filenames == SelectSeq(entries, LAMBDA e : e.kind # "dir")
    IN (IF incd THEN PrefixAll(dirnames, prefix) ELSE <<>>)
           \o (IF incf THEN PrefixAll(filenames, prefix) ELSE <<>>)
           \o WalkInto(dirnames, prefix, incd, incf)

WalkInto(dirnames, prefix, incd, incf) ==
    IF dirnames = <<>> THEN <<>>
    ELSE Walk(Head(dirnames).children, RelPath(prefix, Head(dirnames).name), incd, incf)
             \o WalkInto(Tail(dirnames), prefix, incd, incf)

RECURSIVE IterNames(_, _, _)
\* the loop over root.iterdir(): the bare names of the enabled kinds
IterNames(entries, incd, incf) ==
    IF entries = <<>> THEN <<>>
    ELSE LET p == Head(entries)
         IN (IF p.kind = "dir" /\ incd THEN <<p.name>> ELSE <<>>)
                \o (IF p.kind = "file" /\ incf THEN <<p.name>> ELSE <<>>)
                \o IterNames(Tail(entries), incd, incf)

\* self.out_var.get().strip() or "filenames_sorted.txt"
OutName(field) == IF strip(field) = <<>> THEN DefaultOutName ELSE strip(field)

\* mutant of SkipOutput: the whole path is compared with the output name
SkipOutputPath(names, out_name) ==
    SelectSeq(names, LAMBDA n : n # out_name)

\* [n for n in names if Path(n).name != Path(out_name).name]
SkipOutput(names, out_name) ==
    SelectSeq(names, LAMBDA n : PathName(n) # PathName(out_name))

\* the key of a sort by str.casefold (fold) or by the string itself
StrKey(x, fold) == IF fold THEN casefold(x) ELSE x

RECURSIVE InsertByStr(_, _, _)
\* x placed behind every entry whose key is not greater
InsertByStr(x, sorted, fold) ==
    IF sorted = <<>> THEN <<x>>
    ELSE IF StrLess(StrKey(x, fold), StrKey(Head(sorted), fold)) THEN <<x>> \o sorted
    ELSE <<Head(sorted)>> \o InsertByStr(x, Tail(sorted), fold)

RECURSIVE SortByStr(_, _)
\* names.sort(key=str.casefold) / names.sort(key=None): stable
SortByStr(list, fold) ==
    IF list = <<>> THEN <<>>
    ELSE InsertByStr(list[Len(list)], SortByStr(SubSeq(list, 1, Len(list) - 1), fold), fold)

\* mutant of SortNames: the case-insensitive toggle is looked at first
SortNamesCaseFirst(names, natural, ci) ==
    IF ci THEN SortByStr(names, TRUE)
    ELSE IF natural THEN SortByKey(names)
    ELSE SortByStr(names, FALSE)

\* names.sort(key=key_func), for a list whose natural keys exist
SortNames(names, natural, ci) ==
    IF natural THEN SortByKey(names)
    ELSE IF ci THEN SortByStr(names, TRUE)
    ELSE SortByStr(names, FALSE)

\* names before the skip and the sort
Collected(folder, rec, incd, incf) ==
    IF rec THEN Walk(folder.entries, <<>>, incd, incf)
    ELSE IterNames(folder.entries, incd, incf)

\* gather_names() on a folder: the list, or the ValueError it raises (of the
\* folder test, or of an int() of natural_key)
GatherNames(folder) ==
    IF ~folder.exists THEN [raised |-> "Folder does not exist", names |-> <<>>]
    ELSE LET names == Collected(folder, recurse, include_dirs, include_files)
             kept == IF skip_output THEN SkipOutput(names, OutName(out_var)) ELSE names
         IN IF natural_sort /\ SortRaises(kept)
            THEN [raised |-> "ValueError", names |-> <<>>]
            ELSE [raised |-> "none",
                  names |-> SortNames(kept, natural_sort, sort_case_insensitive)]

\* gather_names() on the folder in dir_var
gather_names == GatherNames(fs)

---------------------------------------------------------------------------
(* The lister: state after construction *)

\* the cap of a preview: names[:5000]
PreviewCap == 5000

\* a cap low enough for the entries of a bounded folder to exceed it
SmallCap == 1

NoGather == [state |-> "none", names |-> <<>>, by |-> "none",
             fs |-> [exists |-> FALSE, entries |-> <<>>]]

NoOutFile == [exists |-> FALSE, name |-> <<>>, data |-> <<>>]

\* App.__init__: the lister's options, both send toggles off, an empty preview
ListerConstructed ==
    /\ out_var = DefaultOutName
    /\ include_files = TRUE
    /\ include_dirs = FALSE
    /\ recurse = FALSE
    /\ sort_case_insensitive = TRUE
    /\ natural_sort = TRUE
    /\ skip_output = TRUE
    /\ send_to_a = FALSE
    /\ send_to_b = FALSE
    /\ text = <<>>
    /\ out_file = NoOutFile
    /\ gathered = NoGather

\* the lister at rest on an empty folder
ListerIdle ==
    /\ ListerConstructed
    /\ fs = [exists |-> TRUE, entries |-> <<>>]
    /\ preview_cap = PreviewCap

---------------------------------------------------------------------------
(* App._on_send_toggle and the two send checkboxes *)

\* mutant of _on_send_toggle: the callback leaves both variables as written
OnSendToggleIdle(a, b, tracing) == <<a, b>>

RECURSIVE _on_send_toggle(_, _, _)
\* the write callback on the values a of send_to_a and b of send_to_b; a set()
\* inside it runs the callback again unless the variable written is one whose
\* trace is running (tracing): Tcl disables a variable's traces while one of
\* them runs
_on_send_toggle(a, b, tracing) ==
    LET set_b == IF "b" \in tracing THEN <<a, FALSE>>
                 ELSE _on_send_toggle(a, FALSE, tracing \cup {"b"})
        set_a == IF "a" \in tracing THEN <<FALSE, b>>
                 ELSE _on_send_toggle(FALSE, b, tracing \cup {"a"})
    IN IF a /\ b THEN set_b
       ELSE IF a THEN set_b
       ELSE IF b THEN set_a
       ELSE <<a, b>>

\* the user writes v to "Send to Compare A"; the callbacks run
write_send_to_a(v) ==
    /\ \E r \in {_on_send_toggle(v, send_to_b, {"a"})} :
          send_to_a' = r[1] /\ send_to_b' = r[2]
    /\ dialog' = "none"
    /\ UNCHANGED <<fs, out_var, include_files, include_dirs, recurse,
                   sort_case_insensitive, natural_sort, skip_output, text, preview_cap,
                   out_file, gathered>>
    /\ UNCHANGED <<text_a, text_b, comp_case_insensitive, comp_reduce_output,
                   comp_large_threshold, compare_result, compare_cache, status_var,
                   popup, files, last_cmp, hash_seed, normVars, keyVars, loadVars>>

\* the user writes v to "Send to Compare B"; the callbacks run
write_send_to_b(v) ==
    /\ \E r \in {_on_send_toggle(send_to_a, v, {"b"})} :
          send_to_a' = r[1] /\ send_to_b' = r[2]
    /\ dialog' = "none"
    /\ UNCHANGED <<fs, out_var, include_files, include_dirs, recurse,
                   sort_case_insensitive, natural_sort, skip_output, text, preview_cap,
                   out_file, gathered>>
    /\ UNCHANGED <<text_a, text_b, comp_case_insensitive, comp_reduce_output,
                   comp_large_threshold, compare_result, compare_cache, status_var,
                   popup, files, last_cmp, hash_seed, normVars, keyVars, loadVars>>

---------------------------------------------------------------------------
(* App.preview *)

\* names[:cap]
FirstN(names, cap) == SubSeq(names, 1, IF Len(names) < cap THEN Len(names) ELSE cap)

RECURSIVE Lines(_)
\* every name followed by a newline
Lines(names) ==
    IF names = <<>> THEN <<>> ELSE Head(names) \o <<"\n">> \o Lines(Tail(names))

\* the entries a preview renders and sends to a compare list
Shown(names, cap) == FirstN(names, cap)

preview ==
    \E g \in {gather_names} :
       /\ IF g.raised # "none"
          THEN /\ dialog' = "Error"
               /\ gathered' = [state |-> "raised", names |-> <<>>, fs |-> fs,
                               by |-> "preview"]
               /\ UNCHANGED <<text, text_a, text_b, status_var>>
          ELSE /\ text' = Lines(Shown(g.names, preview_cap))
               /\ text_a' = IF send_to_a THEN Join(Shown(g.names, preview_cap), <<"\n">>)
                            ELSE text_a
               /\ text_b' = IF send_to_b THEN Join(Shown(g.names, preview_cap), <<"\n">>)
                            ELSE text_b
               /\ status_var' = [msg |-> "Previewed", n |-> Len(g.names)]
               /\ dialog' = "none"
               /\ gathered' = [state |-> "returned", names |-> g.names, fs |-> fs,
                               by |-> "preview"]
       /\ UNCHANGED <<fs, out_var, include_files, include_dirs, recurse,
                      sort_case_insensitive, natural_sort, skip_output, send_to_a,
                      send_to_b, preview_cap, out_file>>
       /\ UNCHANGED <<comp_case_insensitive, comp_reduce_output, comp_large_threshold,
                      compare_result, compare_cache, popup, files, last_cmp, hash_seed,
                      normVars, keyVars, loadVars>>

---------------------------------------------------------------------------
(* App.write_file *)

RECURSIVE WriteInto(_, _)
\* the folder after open(path, "w") of the file at parts below it: [ok, entries];
\* the open fails on a missing directory on the way and on a path that is no
\* regular file; a new file comes last in its directory
WriteInto(entries, parts) ==
    IF parts = <<>> THEN [ok |-> FALSE, entries |-> entries]
    ELSE LET at == {i \in 1..Len(entries) : entries[i].name = Head(parts)}
         IN IF at = {}
            THEN IF Len(parts) = 1
                 THEN [ok |-> TRUE,
                       entries |-> Append(entries, [name |-> Head(parts), kind |-> "file",
                                                    children |-> <<>>])]
                 ELSE [ok |-> FALSE, entries |-> entries]
            ELSE LET i == CHOOSE j \in at : TRUE
                 IN IF Len(parts) = 1
                    THEN [ok |-> entries[i].kind = "file", entries |-> entries]
                    ELSE IF entries[i].kind # "dir"
                    THEN [ok |-> FALSE, entries |-> entries]
                    ELSE LET below == WriteInto(entries[i].children, Tail(parts))
                         IN [ok |-> below.ok,
                             entries |-> [entries EXCEPT ![i].children = below.entries]]

\* mutant of Written: the file holds what a preview shows
WrittenCapped(names, cap) == Lines(FirstN(names, cap))

\* the lines written to the output file (the cap is not looked at)
Written(names, cap) == Lines(names)

\* io_error: the open of the output file raises for a reason outside the folder
write_file(io_error) ==
    \E g \in {gather_names} :
    \E w \in {WriteInto(fs.entries, PathParts(OutName(out_var)))} :
       /\ IF g.raised # "none"
          THEN /\ dialog' = "Error"
               /\ gathered' = [state |-> "raised", names |-> <<>>, fs |-> fs,
                               by |-> "write_file"]
               /\ UNCHANGED <<fs, out_file, text_a, text_b, status_var>>
          ELSE IF io_error \/ ~w.ok
          THEN /\ dialog' = "Write failed"
               /\ gathered' = [state |-> "returned", names |-> g.names, fs |-> fs,
                               by |-> "write_file"]
               /\ UNCHANGED <<fs, out_file, text_a, text_b, status_var>>
          ELSE /\ fs' = [fs EXCEPT !.entries = w.entries]
               /\ out_file' = [exists |-> TRUE, name |-> OutName(out_var),
                               data |-> Written(g.names, preview_cap)]
               /\ text_a' = IF send_to_a THEN Join(g.names, <<"\n">>) ELSE text_a
               /\ text_b' = IF send_to_b THEN Join(g.names, <<"\n">>) ELSE text_b
               /\ status_var' = [msg |-> "Wrote", n |-> Len(g.names)]
               /\ dialog' = "Done"
               /\ gathered' = [state |-> "returned", names |-> g.names, fs |-> fs,
                               by |-> "write_file"]
       /\ UNCHANGED <<out_var, include_files, include_dirs, recurse,
                      sort_case_insensitive, natural_sort, skip_output, send_to_a,
                      send_to_b, text, preview_cap>>
       /\ UNCHANGED <<comp_case_insensitive, comp_reduce_output, comp_large_threshold,
                      compare_result, compare_cache, popup, files, last_cmp, hash_seed,
                      normVars, keyVars, loadVars>>

---------------------------------------------------------------------------
(* App._load_list_file *)

\* self.comp_max_combined_mb
comp_max_combined_mb == 15

\* a limit low enough for the bounded lists and files to exceed it
SmallMax == 2

\* self.comp_max_combined_mb * 1024 * 1024
MaxCombinedBytes == comp_max_combined_mb * 1024 * 1024

NoLoad == [state |-> "none", target |-> "none", size |-> 0, data |-> <<>>,
           a |-> <<>>, b |-> <<>>]

LoadIdle ==
    /\ comp_max_combined = MaxCombinedBytes
    /\ load = NoLoad

\* the size test of a load
Blocked(size_a, size_b, size_new, limit) == size_a + size_b + size_new > limit

\* target: "a" (Browse A) or "b" (Browse B); picked: a file was chosen in the
\* dialog; file: [size, data, readable] of the file chosen
_load_list_file(target, picked, file) ==
    /\ IF ~picked
       THEN /\ dialog' = "none"
            /\ load' = [state |-> "cancelled", target |-> target, size |-> 0,
                        data |-> <<>>, a |-> text_a, b |-> text_b]
            /\ UNCHANGED <<text_a, text_b>>
       ELSE /\ load' = [state |-> IF ~file.readable THEN "Read failed"
                                  ELSE IF Blocked(Utf8Bytes(text_a), Utf8Bytes(text_b),
                                                  file.size, comp_max_combined)
                                  THEN "Too large"
                                  ELSE "loaded",
                        target |-> target, size |-> file.size, data |-> file.data,
                        a |-> text_a, b |-> text_b]
            /\ dialog' = IF load'.state = "loaded" THEN "none" ELSE load'.state
            /\ text_a' = IF load'.state = "loaded" /\ target = "a" THEN file.data
                         ELSE text_a
            /\ text_b' = IF load'.state = "loaded" /\ target = "b" THEN file.data
                         ELSE text_b
    /\ UNCHANGED <<comp_case_insensitive, comp_reduce_output, comp_large_threshold,
                   compare_result, compare_cache, status_var, popup, files, last_cmp,
                   hash_seed, comp_max_combined, normVars, keyVars, listerVars>>

---------------------------------------------------------------------------
(* Inputs *)

RECURSIVE SeqsUpTo(_, _)
\* the sequences of at most n elements of S
SeqsUpTo(S, n) ==
    IF n = 0 THEN {<<>>}
    ELSE LET shorter == SeqsUpTo(S, n - 1)
         IN shorter \cup {Append(q, x) : q \in {r \in shorter : Len(r) = n - 1}, x \in S}

\* lines of the lists compared: a blank one and one letter in its three forms
\* (equal natural keys, "S" and "s" equal in lower case, "LONG_S" only casefolded)
CmpLines == {<<" ">>, <<"s">>, <<"S">>, <<"LONG_S">>}

CmpTexts == {Join(ls, <<"\n">>) : ls \in SeqsUpTo(CmpLines, MaxLines)}

---------------------------------------------------------------------------
(* Specification of one compare: the lists, the case mode, the reduce flag and *)
(* the hash seed are drawn; the compare window is open on the two lists        *)

InitCompare ==
    /\ text_a \in CmpTexts
    /\ text_b \in CmpTexts
    /\ comp_case_insensitive \in BOOLEAN
    /\ comp_reduce_output \in BOOLEAN
    /\ comp_large_threshold = SmallThreshold
    /\ compare_result = <<>>
    /\ compare_cache = NoCache
    /\ status_var = Ready
    /\ popup = [open |-> TRUE, ta |-> text_a, tb |-> text_b, res |-> <<>>]
    /\ files = NoFiles
    /\ dialog = "none"
    /\ last_cmp = NoCompare
    /\ hash_seed \in 0..(NumSeeds - 1)
    /\ steps = 0
    /\ NormIdle
    /\ KeyIdle
    /\ ListerIdle
    /\ LoadIdle

NextCompare ==
    \/ compare_lists /\ UNCHANGED steps
    \/ do_compare_popup /\ UNCHANGED steps

SpecCompare == InitCompare /\ [][NextCompare]_vars

---------------------------------------------------------------------------
(* Specification of the application: from construction, the user types into *)
(* the list boxes, sets the checkboxes and presses the buttons              *)

\* what the user types into a list box
AppTexts == {<<>>, <<"s">>, <<"S", "\n", "s">>}

\* the threshold is the attribute's 3 MB, or one set low enough to be exceeded
Init ==
    /\ AppConstructed
    /\ comp_large_threshold \in {LargeThresholdBytes, SmallThreshold}
    /\ hash_seed \in 0..(NumSeeds - 1)
    /\ steps = 0
    /\ NormIdle
    /\ KeyIdle
    /\ ListerIdle
    /\ LoadIdle

\* one more edit or button press of the session
Step == steps < MaxSteps /\ steps' = steps + 1

Next ==
    \/ Step /\ \E t \in AppTexts : edit_a(t)
    \/ Step /\ \E t \in AppTexts : edit_b(t)
    \/ Step /\ toggle_case_insensitive
    \/ Step /\ toggle_reduce_output
    \/ Step /\ compare_lists
    \/ Step /\ open_compare_window
    \/ Step /\ \E t \in AppTexts : edit_popup_a(t)
    \/ Step /\ \E t \in AppTexts : edit_popup_b(t)
    \/ Step /\ do_compare_popup
    \/ Step /\ copy_to_main_a
    \/ Step /\ copy_to_main_b
    \/ Step /\ back_to_main
    \/ Step /\ \E chosen \in BOOLEAN, written \in 0..4 :
                   save_compare_results(chosen, written)

Spec == Init /\ [][Next]_vars

---------------------------------------------------------------------------
(* Specification of _normalize_list: the raw text and the case mode are drawn, *)
(* the function is applied, and applied again to its rendered result           *)

InitNormalize ==
    /\ raw \in StrOfLen(MaxLen)
    /\ case_insensitive \in BOOLEAN
    /\ items = [state |-> "pending", items |-> <<>>, first |-> <<>>]
    /\ KeyIdle
    /\ AppConstructed
    /\ comp_large_threshold = LargeThresholdBytes
    /\ hash_seed = 0
    /\ ListerIdle
    /\ LoadIdle
    /\ steps = 0

normalize_call ==
    /\ items.state = "pending"
    /\ \E r \in {_normalize_list(raw, case_insensitive)} :
          items' = [state |-> IF r.raised = "none" THEN "returned" ELSE "raised",
                    items |-> r.items, first |-> r.items]
    /\ UNCHANGED <<raw, case_insensitive, keyVars, appVars, listerVars, loadVars, steps>>

\* "\n".join(items) handed to _normalize_list again
renormalize_call ==
    /\ items.state = "returned"
    /\ raw' = Join(items.items, <<"\n">>)
    /\ \E r \in {_normalize_list(raw', case_insensitive)} :
          items' = [state |-> IF r.raised = "none" THEN "returned again" ELSE "raised again",
                    items |-> r.items, first |-> items.items]
    /\ UNCHANGED <<case_insensitive, keyVars, appVars, listerVars, loadVars, steps>>

NextNormalize ==
    \/ normalize_call
    \/ renormalize_call

SpecNormalize == InitNormalize /\ [][NextNormalize]_vars

---------------------------------------------------------------------------
(* Specification of natural_key: a text prefix and two digit runs are drawn *)

\* str.swapcase of one character
SwapcaseChar(c) ==
    CASE c = "s" -> "S"
      [] c = "S" -> "s"
      [] c = "LONG_S" -> "S"
      [] OTHER -> c

swapcase(s) == [i \in 1..Len(s) |-> SwapcaseChar(s[i])]

TextPrefixes == {s \in StrOfLen(MaxPrefix) : \A i \in 1..Len(s) : ~IsDecimal(s[i])}

DigitRuns == SeqsUpTo({"0", "1", "2"}, MaxRun) \ {<<>>}

InitKey ==
    /\ key_p \in TextPrefixes
    /\ key_m \in DigitRuns
    /\ key_n \in DigitRuns
    /\ key_out = [state |-> "pending", m |-> NoKey, n |-> NoKey, c |-> NoKey]
    /\ NormIdle
    /\ AppConstructed
    /\ comp_large_threshold = LargeThresholdBytes
    /\ hash_seed = 0
    /\ ListerIdle
    /\ LoadIdle
    /\ steps = 0

\* natural_key of p+m, of p+n, and of p+m with the case of its letters swapped
natural_key_call ==
    /\ key_out.state = "pending"
    /\ key_out' = [state |-> "done",
                   m |-> natural_key(key_p \o key_m),
                   n |-> natural_key(key_p \o key_n),
                   c |-> natural_key(swapcase(key_p) \o key_m)]
    /\ UNCHANGED <<key_p, key_m, key_n, normVars, appVars, listerVars, loadVars, steps>>

NextKey == natural_key_call

SpecKey == InitKey /\ [][NextKey]_vars

---------------------------------------------------------------------------
(* Specification of gather_names: the folder, the options and the output name *)
(* field are drawn, the function is applied                                   *)

File(n) == [name |-> n, kind |-> "file", children |-> <<>>]

Other(n) == [name |-> n, kind |-> "other", children |-> <<>>]

Dir(n, entries) == [name |-> n, kind |-> "dir", children |-> entries]

\* most entries at the top level of the folder
MaxTop == 2

\* what a folder may hold: files whose names the three sort keys order in
\* different ways, a file whose natural key does not exist, a file with the
\* default output name, a dangling link, and a directory with a file, a named
\* pipe and a directory of its own
EntryPool ==
    {File(<<"s">>), File(<<"S", "1">>), File(<<"2">>), File(<<"1", "0">>),
     File(<<"SUP2">>), File(DefaultOutName), Other(<<"o">>),
     Dir(<<"d">>, <<File(<<"s">>), Other(<<"o">>),
                    Dir(<<"e">>, <<File(DefaultOutName), File(<<"S", "1">>)>>)>>)}

\* the entries of a folder in scandir order: no name twice
Listings(n) ==
    {l \in SeqsUpTo(EntryPool, n) : \A i, j \in 1..Len(l) : i # j => l[i].name # l[j].name}

\* a blank field, and a path with blanks around it whose base name is "s"
OutFields == {<<" ">>, <<" ", "d", "/", "s", " ">>}

InitCollect ==
    /\ fs \in {[exists |-> TRUE, entries |-> l] : l \in Listings(MaxTop)}
              \cup {[exists |-> FALSE, entries |-> <<>>]}
    /\ out_var \in OutFields
    /\ include_files \in BOOLEAN
    /\ include_dirs \in BOOLEAN
    /\ recurse \in BOOLEAN
    /\ sort_case_insensitive \in BOOLEAN
    /\ natural_sort \in BOOLEAN
    /\ skip_output \in BOOLEAN
    /\ send_to_a = FALSE
    /\ send_to_b = FALSE
    /\ text = <<>>
    /\ preview_cap = PreviewCap
    /\ out_file = NoOutFile
    /\ gathered = NoGather
    /\ AppConstructed
    /\ comp_large_threshold = LargeThresholdBytes
    /\ hash_seed = 0
    /\ NormIdle
    /\ KeyIdle
    /\ LoadIdle
    /\ steps = 0

gather_names_call ==
    /\ gathered.state = "none"
    /\ \E g \in {gather_names} :
          gathered' = [state |-> IF g.raised = "none" THEN "returned" ELSE "raised",
                       names |-> g.names, fs |-> fs, by |-> "call"]
    /\ UNCHANGED <<fs, out_var, include_files, include_dirs, recurse,
                   sort_case_insensitive, natural_sort, skip_output, send_to_a,
                   send_to_b, text, preview_cap, out_file>>
    /\ UNCHANGED <<normVars, keyVars, appVars, loadVars, steps>>

NextCollect == gather_names_call

SpecCollect == InitCollect /\ [][NextCollect]_vars

---------------------------------------------------------------------------
(* Specification of the lister: a folder, the options of the collection and  *)
(* the output name are drawn, the two sort toggles are as constructed; the    *)
(* user sets the send toggles, previews and writes the file                   *)

\* folders of more entries than the low cap, flat and nested
ListerFolders ==
    {<<File(<<"1", "0">>), File(<<"2">>), File(<<"s">>), File(<<"S", "1">>)>>,
     <<File(<<"s">>), File(DefaultOutName),
       Dir(<<"d">>, <<File(<<"s">>), File(<<"1", "0">>)>>)>>}

ListerOutFields == {DefaultOutName, <<"d", "/", "s">>}

InitLister ==
    /\ fs \in {[exists |-> TRUE, entries |-> l] : l \in ListerFolders}
    /\ out_var \in ListerOutFields
    /\ include_files \in BOOLEAN
    /\ include_dirs \in BOOLEAN
    /\ recurse \in BOOLEAN
    /\ sort_case_insensitive = TRUE
    /\ natural_sort = TRUE
    /\ skip_output \in BOOLEAN
    /\ send_to_a = FALSE
    /\ send_to_b = FALSE
    /\ text = <<>>
    /\ preview_cap \in {PreviewCap, SmallCap}
    /\ out_file = NoOutFile
    /\ gathered = NoGather
    /\ AppConstructed
    /\ comp_large_threshold = LargeThresholdBytes
    /\ hash_seed = 0
    /\ NormIdle
    /\ KeyIdle
    /\ LoadIdle
    /\ steps = 0

NextLister ==
    \/ (\E v \in BOOLEAN : write_send_to_a(v)) /\ UNCHANGED steps
    \/ (\E v \in BOOLEAN : write_send_to_b(v)) /\ UNCHANGED steps
    \/ preview /\ UNCHANGED steps
    \/ (\E io_error \in BOOLEAN : write_file(io_error)) /\ UNCHANGED steps

SpecLister == InitLister /\ [][NextLister]_vars

---------------------------------------------------------------------------
(* Specification of a load: the two lists and the limit are drawn; the user *)
(* browses for a file for List A or List B                                  *)

\* texts of 0, 1, 3 and 6 bytes
LoadTexts == {<<>>, <<"s">>, <<"s", "\n", "S">>, <<"LONG_S", "\n", "s", "\n", "S">>}

\* the files to choose from: their size in bytes and their text, and a file
\* that cannot be read
LoadFiles ==
    {[size |-> Utf8Bytes(t), data |-> t, readable |-> TRUE] : t \in LoadTexts}
        \cup {[size |-> 0, data |-> <<>>, readable |-> FALSE]}

InitLoad ==
    /\ text_a \in LoadTexts
    /\ text_b \in LoadTexts
    /\ comp_max_combined \in {MaxCombinedBytes, SmallMax}
    /\ load = NoLoad
    /\ comp_case_insensitive = FALSE
    /\ comp_reduce_output = FALSE
    /\ comp_large_threshold = LargeThresholdBytes
    /\ compare_result = <<>>
    /\ compare_cache = NoCache
    /\ status_var = Ready
    /\ popup = ClosedPopup
    /\ files = NoFiles
    /\ dialog = "none"
    /\ last_cmp = NoCompare
    /\ hash_seed = 0
    /\ NormIdle
    /\ KeyIdle
    /\ ListerIdle
    /\ steps = 0

NextLoad ==
    \/ (\E picked \in BOOLEAN, file \in LoadFiles : _load_list_file("a", picked, file))
           /\ UNCHANGED steps
    \/ (\E picked \in BOOLEAN, file \in LoadFiles : _load_list_file("b", picked, file))
           /\ UNCHANGED steps

SpecLoad == InitLoad /\ [][NextLoad]_vars

---------------------------------------------------------------------------
(* Claims: shared vocabulary *)

\* the two normalized lists of the compare whose result is in the cache
CachedA == _normalize_list(last_cmp.a, last_cmp.ci).items

CachedB == _normalize_list(last_cmp.b, last_cmp.ci).items

\* the non-blank lines of a raw text, trimmed
TrimmedLines(t) == {strip(l) : l \in Range(splitlines(t))} \ {<<>>}

\* no line of the text is non-blank
IsBlankText(t) == TrimmedLines(t) = {}

\* positions i < j of a list hold entries with equal natural keys
HasKeyTie(list) ==
    \E i, j \in 1..Len(list) :
        i < j /\ KeyCmp(natural_key(list[i]).key, natural_key(list[j]).key) = "eq"

\* the list is in non-decreasing natural_key order
InKeyOrder(list) ==
    \A i, j \in 1..Len(list) :
        i < j => KeyCmp(natural_key(list[i]).key, natural_key(list[j]).key) \in {"lt", "eq"}

---------------------------------------------------------------------------
(* Claims checked under SpecCompare *)

(* C1: the three outputs of a compare partition the union of the two normalized
   lists: together they hold exactly the elements of the union, no element is in
   two of them or twice in one, and their lengths add up to the size of the
   union. *)
C1_Partition ==
    last_cmp.valid =>
        \A u \in {Range(CachedA) \cup Range(CachedB)} :
        \A oa \in {Range(compare_cache.only_a)}, ob \in {Range(compare_cache.only_b)},
           bo \in {Range(compare_cache.both)} :
            /\ oa \cup ob \cup bo = u
            /\ oa \cap ob = {}
            /\ oa \cap bo = {}
            /\ ob \cap bo = {}
            /\ Len(compare_cache.only_a) + Len(compare_cache.only_b)
                   + Len(compare_cache.both) = Cardinality(u)

\* a compare whose three outputs are all non-empty
C1_Witness ==
    /\ last_cmp.valid
    /\ compare_cache.only_a # <<>>
    /\ compare_cache.only_b # <<>>
    /\ compare_cache.both # <<>>

(* C4: compare is commutative up to the swap of labels: the only-in-A sequence of
   compare(A, B) is, entry for entry and in the same order, the only-in-B sequence
   of compare(B, A), also among entries with equal natural keys. *)
C4_Commutative ==
    last_cmp.valid =>
        compare_cache.only_a = CacheOf(CachedB, CachedA, hash_seed).only_b

\* a compare whose only-in-A holds two entries with equal natural keys
C4_Witness ==
    /\ last_cmp.valid
    /\ HasKeyTie(compare_cache.only_a)

(* C5: compare fails with EmptyInput (a warning, no result cached) whenever
   neither list holds a non-blank line, and fails so only then. *)
C5_EmptyInputWhenBlank ==
    /\ last_cmp.valid => ~(IsBlankText(last_cmp.a) /\ IsBlankText(last_cmp.b))
    /\ dialog = "Missing input" =>
           \/ IsBlankText(text_a) /\ IsBlankText(text_b)
           \/ IsBlankText(popup.ta) /\ IsBlankText(popup.tb)

\* what a case-insensitive (fold = TRUE: casefolded, else lower-cased) or a
\* case-sensitive compare must have made of the lines of A and B
CaseRule(fold) ==
    LET key(l) == IF fold THEN casefold(l) ELSE [i \in 1..Len(l) |-> LowerChar(l[i])]
        la == TrimmedLines(last_cmp.a)
        lb == TrimmedLines(last_cmp.b)
    IN IF last_cmp.ci
       THEN /\ Range(CachedA) = {key(l) : l \in la}
            /\ Len(CachedA) = Cardinality({key(l) : l \in la})
            /\ Range(CachedB) = {key(l) : l \in lb}
            /\ Len(CachedB) = Cardinality({key(l) : l \in lb})
            /\ \A x \in la, y \in lb :
                   key(x) = key(y) =>
                       /\ key(x) \in Range(compare_cache.both)
                       /\ key(x) \notin Range(compare_cache.only_a)
                       /\ key(x) \notin Range(compare_cache.only_b)
                       /\ key(y) \notin Range(compare_cache.only_b)
       ELSE /\ Range(CachedA) = la
            /\ Len(CachedA) = Cardinality(la)
            /\ Range(CachedB) = lb
            /\ Len(CachedB) = Cardinality(lb)

(* C6 as stated: in case-insensitive mode the key of a line is its casefolded
   form: one entry per group of lines equal after casefolding, stored casefolded,
   and a line of A and a line of B equal after casefolding go to in-both and to
   neither only-in list; in case-sensitive mode every distinct trimmed line is
   kept with its own text. *)
C6_CasefoldKey == last_cmp.valid => CaseRule(TRUE)

(* C6 as amended: the same with the lower-cased form (str.lower) as the key in
   case-insensitive mode. *)
C6_LowerKey == last_cmp.valid => CaseRule(FALSE)

\* a case-insensitive compare of lists that hold one item under two casings
C6_Witness ==
    /\ last_cmp.valid
    /\ last_cmp.ci
    /\ \E x \in TrimmedLines(last_cmp.a), y \in TrimmedLines(last_cmp.b) :
           x # y /\ lower(x) = lower(y) /\ lower(x) \in Range(compare_cache.both)

(* C8: the cached result does not depend on the reduce flag or the threshold: it
   is the result computed from the two lists and the case mode alone, whether
   the report was rendered or suppressed. *)
C8_ReduceIndependent ==
    last_cmp.valid => compare_cache = CacheOf(CachedA, CachedB, hash_seed)

\* a compare from the main window whose report was suppressed for its size
C8_Witness ==
    /\ last_cmp.valid
    /\ last_cmp.reduce
    /\ last_cmp.by = "main"
    /\ dialog = "Large output"
    /\ compare_cache.combined # <<>>

RECURSIVE ItemLines(_)
\* one line per item
ItemLines(arr) ==
    IF arr = <<>> THEN <<>> ELSE Head(arr) \o <<"\n">> \o ItemLines(Tail(arr))

\* a header line with the count, one line per item, one blank line
LayoutBlock(title, arr) ==
    title \o <<" ", "(">> \o str(Len(arr)) \o <<")", "\n">> \o ItemLines(arr) \o <<"\n">>

(* C9: the report is three blocks in the order Only in A, Only in B, In both;
   each is a header line "<title> (<count>)" with the number of items, one line
   per item, and a single blank separator line, for an empty block too. *)
C9_Layout ==
    compare_cache.has =>
        compare_cache.combined =
            LayoutBlock(TitleOnlyA, compare_cache.only_a)
                \o LayoutBlock(TitleOnlyB, compare_cache.only_b)
                \o LayoutBlock(TitleBoth, compare_cache.both)

(* C17: a compare never modifies its inputs: whatever its outcome (a result, the
   warning for missing input, a report suppressed for its size), List A and
   List B of the window it was run from, and of the other window, hold after the
   call what they held before it. *)
C17_InputsUnchanged ==
    [][(compare_lists \/ do_compare_popup) =>
           /\ text_a' = text_a
           /\ text_b' = text_b
           /\ popup'.ta = popup.ta
           /\ popup'.tb = popup.tb]_vars

---------------------------------------------------------------------------
(* Claims checked under SpecNormalize *)

Returned == items.state \in {"returned", "returned again"}

\* no entry is empty, whitespace-only or untrimmed
NoBlankEntry == \A i \in 1..Len(items.items) : items.items[i] # <<>> /\ strip(items.items[i]) = items.items[i]

(* C2 as stated: the returned list has no blank entry, no two entries that are
   equal (after casefolding in case-insensitive mode, exactly otherwise) and is
   in non-decreasing natural_key order. *)
C2_CasefoldUnique ==
    Returned =>
        /\ NoBlankEntry
        /\ \A i, j \in 1..Len(items.items) :
               i < j => IF case_insensitive
                        THEN casefold(items.items[i]) # casefold(items.items[j])
                        ELSE items.items[i] # items.items[j]
        /\ InKeyOrder(items.items)

(* C2 as amended: the same with equality after lower-casing (str.lower) as the
   rule of the case-insensitive mode. *)
C2_LowerUnique ==
    Returned =>
        /\ NoBlankEntry
        /\ \A i, j \in 1..Len(items.items) :
               i < j => IF case_insensitive
                        THEN lower(items.items[i]) # lower(items.items[j])
                        ELSE items.items[i] # items.items[j]
        /\ InKeyOrder(items.items)

\* a returned list of two entries that the sort has put in another order
C2_Witness ==
    /\ items.state = "returned"
    /\ Len(items.items) = 2
    /\ items.items[1] # strip(splitlines(raw)[1])

(* C3: normalizing the rendered result of a normalization again, in the same
   case mode, returns the same sequence, entries with equal natural keys in the
   same relative order. *)
C3_Idempotent ==
    /\ items.state # "raised again"
    /\ items.state = "returned again" => items.items = items.first

\* a second normalization of a list that holds two entries with equal keys
C3_Witness ==
    /\ items.state = "returned again"
    /\ HasKeyTie(items.first)

---------------------------------------------------------------------------
(* Claims checked under SpecKey *)

(* C7: for a text prefix p and digit runs m and n, natural_key(p+m) is less than
   natural_key(p+n) exactly when int(m) < int(n), and swapping the case of the
   letters of a string leaves its key unchanged. *)
C7_NumericOrder ==
    (key_out.state = "done" /\ key_out.m.raised = "none") =>
        /\ (KeyCmp(key_out.m.key, key_out.n.key) = "lt") <=> (int(key_m) < int(key_n))
        /\ key_out.c = key_out.m

\* "s2" against "s10": the lesser number has the greater first digit; the prefix
\* has a letter whose case the swap changes
C7_Witness ==
    /\ key_out.state = "done"
    /\ key_out.m.raised = "none"
    /\ swapcase(key_p) # key_p
    /\ int(key_m) < int(key_n)
    /\ StrLess(key_n, key_m)

\* the key has odd length, text at the odd positions and integers at the even ones
WellShaped(k) ==
    /\ Len(k) % 2 = 1
    /\ \A i \in 1..Len(k) : k[i].kind = IF i % 2 = 1 THEN "text" ELSE "int"

(* C18: natural_key is total and well-shaped: for every string it returns a key
   without raising; the key has odd length with text segments at positions 1, 3,
   ... and integer segments at positions 2, 4, ...; comparing two keys never
   compares an integer with a text segment. *)
C18_TotalWellShaped ==
    key_out.state = "done" =>
        /\ \A k \in {key_out.m, key_out.n, key_out.c} :
               k.raised = "none" /\ WellShaped(k.key)
        /\ KeyCmp(key_out.m.key, key_out.n.key) # "TypeError"

---------------------------------------------------------------------------
(* Claims checked under SpecCollect *)

RECURSIVE LastComponent(_)
\* what follows the last separator of a path
LastComponent(n) ==
    IF \E i \in 1..Len(n) : n[i] = "/" THEN LastComponent(Tail(n)) ELSE n

\* the base name of the output file: of the default name when the field is blank
OutBase ==
    LET field == strip(out_var)
    IN LastComponent(IF field = <<>> THEN DefaultOutName ELSE field)

RECURSIVE Subtree(_, _)
\* every entry below a directory, with its root-relative path
Subtree(entries, prefix) ==
    UNION {{[path |-> RelPath(prefix, e.name), kind |-> e.kind]}
               \cup Subtree(e.children, RelPath(prefix, e.name)) : e \in Range(entries)}

\* the immediate children of the root, with their bare names
TopLevel(entries) == {[path |-> e.name, kind |-> e.kind] : e \in Range(entries)}

\* the paths of the entries in reach of the mode whose kind is enabled
Qualifying ==
    LET reach == IF recurse THEN Subtree(gathered.fs.entries, <<>>)
                 ELSE TopLevel(gathered.fs.entries)
    IN {x.path : x \in {y \in reach : \/ y.kind = "file" /\ include_files
                                      \/ y.kind = "dir" /\ include_dirs}}

\* what the walk or the listing of the top level yields, before the skip
Walked == Range(Collected(gathered.fs, recurse, include_dirs, include_files))

(* C11: with the skip option set, gather_names drops exactly the entries whose
   final path component is the base name of the output file (of the default
   name when the field is blank), at any depth, and no other entry; with the
   option not set it drops none. *)
C11_SkipsOutputOnly ==
    gathered.state = "returned" =>
        \A kept \in {IF skip_output THEN {n \in Walked : LastComponent(n) # OutBase}
                     ELSE Walked} :
            /\ Range(gathered.names) = kept
            /\ Len(gathered.names) = Cardinality(kept)

\* a recursive listing with a blank output name field that dropped the file
\* with the default name from a directory below the root and kept other entries
C11_Witness ==
    /\ gathered.state = "returned"
    /\ skip_output
    /\ recurse
    /\ strip(out_var) = <<>>
    /\ gathered.names # <<>>
    /\ \E n \in Walked : n # LastComponent(n) /\ LastComponent(n) = DefaultOutName

(* C12: gather_names returns exactly the qualifying entries, each once: in
   non-recursive mode the bare names of the immediate children of the root that
   are files (with include_files) or directories (with include_dirs); in
   recursive mode the root-relative paths of the files and directories anywhere
   below the root, by the same flags; nothing with both flags off. *)
C12_ExactlyQualifying ==
    gathered.state = "returned" =>
        \A kept \in {{q \in Qualifying : ~skip_output \/ LastComponent(q) # OutBase}} :
            /\ Range(gathered.names) = kept
            /\ Len(gathered.names) = Cardinality(kept)
            /\ (~include_files /\ ~include_dirs) => gathered.names = <<>>

\* the list is in non-decreasing order of the string, casefolded (fold) or as it is
InStrOrder(list, fold) ==
    \A i, j \in 1..Len(list) :
        i < j => ~StrLess(IF fold THEN casefold(list[j]) ELSE list[j],
                          IF fold THEN casefold(list[i]) ELSE list[i])

(* C13: the order of the list is chosen by the two sort toggles, natural sort
   first: by natural_key if natural_sort is set, whatever the case toggle;
   otherwise by the casefolded string if the case toggle is set; otherwise by
   the code points of the string. *)
C13_SortPrecedence ==
    gathered.state = "returned" =>
        IF natural_sort THEN InKeyOrder(gathered.names)
        ELSE IF sort_case_insensitive THEN InStrOrder(gathered.names, TRUE)
        ELSE InStrOrder(gathered.names, FALSE)

\* both toggles set and a list whose natural order is not its casefolded order
C13_Witness ==
    /\ gathered.state = "returned"
    /\ natural_sort
    /\ sort_case_insensitive
    /\ ~InStrOrder(gathered.names, TRUE)

---------------------------------------------------------------------------
(* Claims checked under SpecLister *)

(* C14: after any sequence of writes to the two send toggles at most one of
   them is on; a write that would make both true leaves A on and B off; a
   preview or a write_file (the only handlers of the lister that write to the
   lists) replaces at most one of List A and List B. *)
C14_OneTarget ==
    /\ [](~(send_to_a /\ send_to_b))
    /\ [][(send_to_a /\ write_send_to_b(TRUE)) => (send_to_a' /\ ~send_to_b')]_vars
    /\ [][(send_to_b /\ write_send_to_a(TRUE)) => (send_to_a' /\ ~send_to_b')]_vars
    /\ [][text_a' = text_a \/ text_b' = text_b]_vars

\* List B was filled while B was on, then A was switched on and List A filled
C14_Witness ==
    /\ send_to_a
    /\ ~send_to_b
    /\ text_a # <<>>
    /\ text_b # <<>>

(* C16: the cap of a preview applies only to what is rendered: a preview shows
   the first entries of the collected list up to the cap, write_file on the same
   folder and options writes every collected entry, one per line in the
   collected order, and both report the full number of collected entries. *)
C16_CapOnlyRenders ==
    \A g \in {GatherNames(gathered.fs)} :
        /\ (gathered.by = "preview" /\ gathered.state = "returned") =>
               /\ g.raised = "none"
               /\ text = Lines(FirstN(g.names, preview_cap))
               /\ status_var = [msg |-> "Previewed", n |-> Len(g.names)]
        /\ (gathered.by = "write_file" /\ dialog = "Done") =>
               /\ g.raised = "none"
               /\ out_file.data = Lines(g.names)
               /\ status_var = [msg |-> "Wrote", n |-> Len(g.names)]

\* a file written with more entries than the cap, after a preview that the cap cut
C16_Witness ==
    /\ gathered.by = "write_file"
    /\ dialog = "Done"
    /\ Len(gathered.names) > preview_cap
    /\ out_file.data = Lines(gathered.names)
    /\ text # <<>>
    /\ text = Lines(FirstN(gathered.names, preview_cap))

---------------------------------------------------------------------------
(* Claims checked under SpecLoad *)

(* C15: a load through the file dialog is blocked ("Too large", the target list
   unchanged) if both lists already have content and the bytes of A, of B and
   of the new file together exceed the limit; in every other case where the
   file can be read the target list is replaced by the file's content. *)
C15_BlockedOnlyWhenBothFull ==
    load.state \in {"Too large", "loaded"} =>
        /\ (load.state = "Too large") <=>
               /\ load.a # <<>>
               /\ load.b # <<>>
               /\ Utf8Bytes(load.a) + Utf8Bytes(load.b) + load.size > comp_max_combined
        /\ load.state = "Too large" => (text_a = load.a /\ text_b = load.b)
        /\ load.state = "loaded" =>
               /\ load.target = "a" => (text_a = load.data /\ text_b = load.b)
               /\ load.target = "b" => (text_b = load.data /\ text_a = load.a)

---------------------------------------------------------------------------
(* Claims checked under Spec *)

(* C10: the cache holds exactly the result of the most recent compare, from the
   main window or the popup, that produced one, and nothing of an earlier one; a
   save that succeeds has written that result to only_in_a.txt, only_in_b.txt,
   in_both.txt and compare_result.txt; while no compare has produced a result
   no file is written. *)
C10_LastCompareWins ==
    /\ compare_cache.has = last_cmp.valid
    /\ last_cmp.valid => compare_cache = CacheOf(CachedA, CachedB, hash_seed)
    /\ dialog = "Saved" =>
           /\ \A f \in DOMAIN files : files[f].exists
           /\ files.only_in_a.data = ItemLines(compare_cache.only_a)
                  \o (IF compare_cache.only_a = <<>> THEN <<"\n">> ELSE <<>>)
           /\ files.only_in_b.data = ItemLines(compare_cache.only_b)
                  \o (IF compare_cache.only_b = <<>> THEN <<"\n">> ELSE <<>>)
           /\ files.in_both.data = ItemLines(compare_cache.both)
                  \o (IF compare_cache.both = <<>> THEN <<"\n">> ELSE <<>>)
           /\ files.compare_result.data = compare_cache.combined
    /\ ~compare_cache.has => files = NoFiles

\* a compare in the main window, then another one in the popup with another
\* result, then a save
C10_Witness ==
    /\ dialog = "Saved"
    /\ last_cmp.by = "popup"
    /\ compare_result # <<>>
    /\ compare_result # compare_cache.combined
    /\ compare_cache.only_a # compare_cache.only_b

====
